---------------------------- MODULE Spec2Model ----------------------------
(***************************************************************************)
(* A model of the ReAct agent of src/agent.py: the reason / act / observe  *)
(* loop of ReActAgent.run, and the call-expression parser parse_action     *)
(* with _parse_single_arg.                                                 *)
(*                                                                         *)
(* Text is a sequence of one-character strings.  The four markers the loop *)
(* searches a response for (<final_answer>, </final_answer>, <action>,     *)
(* </action>) are single elements of such a sequence: a marker is neither  *)
(* a word character nor white space, which is all the parser asks of it.   *)
(***************************************************************************)
EXTENDS Integers, Sequences, FiniteSets, TLC

(***************************************************************************)
(* Bounds of the model.                                                    *)
(***************************************************************************)
\* The step budget: MAX_STEPS = 50 in src/agent.py:56.  The loop's behaviour
\* is the same for every budget; the model runs it with a small one.
MAX_STEPS == 3

\* The longest parenthesised body (and raw action string) that the parser's
\* specification enumerates over Sigma.
MaxLen == 4

(***************************************************************************)
(* Characters.                                                             *)
(***************************************************************************)
BS == "\\"
DQ == "\""
SQ == "'"
LF == "\n"

Lower ==
  {"a","b","c","d","e","f","g","h","i","j","k","l","m",
   "n","o","p","q","r","s","t","u","v","w","x","y","z"}

Upper ==
  {"A","B","C","D","E","F","G","H","I","J","K","L","M",
   "N","O","P","Q","R","S","T","U","V","W","X","Y","Z"}

Digit == {"0","1","2","3","4","5","6","7","8","9"}

OctDigit == {"0","1","2","3","4","5","6","7"}

\* \w of Python's re on text of these characters
IsWord(c) == c \in Lower \cup Upper \cup Digit \cup {"_"}

\* the characters str.strip() removes
IsSpace(c) == c \in {" ", LF, "\t", "\r", "\f"}

LowerSeq ==
  <<"a","b","c","d","e","f","g","h","i","j","k","l","m",
    "n","o","p","q","r","s","t","u","v","w","x","y","z">>

UpperSeq ==
  <<"A","B","C","D","E","F","G","H","I","J","K","L","M",
    "N","O","P","Q","R","S","T","U","V","W","X","Y","Z">>

\* str.lower() of one character
LowerChar(c) ==
  IF c \in Upper THEN LowerSeq[CHOOSE k \in 1..26 : UpperSeq[k] = c] ELSE c

\* str.lower()
ToLower(s) == [k \in 1..Len(s) |-> LowerChar(s[k])]

RECURSIVE LStrip(_)
LStrip(s) == IF s # <<>> /\ IsSpace(Head(s)) THEN LStrip(Tail(s)) ELSE s

RECURSIVE RStrip(_)
RStrip(s) ==
  IF s # <<>> /\ IsSpace(s[Len(s)]) THEN RStrip(SubSeq(s, 1, Len(s) - 1)) ELSE s

\* str.strip()
Strip(s) == RStrip(LStrip(s))

(***************************************************************************)
(* Values: what ast.literal_eval returns.  A value is a record of a type   *)
(* t, the characters v of a scalar and the items of a tuple.  An int's v   *)
(* is its decimal digits, a float's v the text of its literal.             *)
(***************************************************************************)
StrVal(cs)    == [t |-> "str",   v |-> cs,   items |-> <<>>]
BytesVal(cs)  == [t |-> "bytes", v |-> cs,   items |-> <<>>]
IntVal(ds)    == [t |-> "int",   v |-> ds,   items |-> <<>>]
FloatVal(cs)  == [t |-> "float", v |-> cs,   items |-> <<>>]
BoolVal(cs)   == [t |-> "bool",  v |-> cs,   items |-> <<>>]
NoneVal       == [t |-> "None",  v |-> <<>>, items |-> <<>>]
TupleVal(xs)  == [t |-> "tuple", v |-> <<>>, items |-> xs]

\* not a value: literal_eval raised SyntaxError or ValueError
Fail          == [t |-> "fail",  v |-> <<>>, items |-> <<>>]

(***************************************************************************)
(* ast.literal_eval, on the literals the model's inputs are made of:       *)
(* quoted strings (single or triple quoted, with the prefixes r, u, b, f   *)
(* and Python's escapes), decimal integers, simple floats, True, False,    *)
(* None, and tuples of these with or without parentheses.  No input of the *)
(* model has, outside a quoted string, a sign, an exponent, a digit        *)
(* separator, a radix prefix, an ellipsis, a bracket or a brace.           *)
(***************************************************************************)
\* the printable ASCII characters, from code 32 to code 126
Ascii ==
  <<" ","!","\"","#","$","%","&","'","(",")","*","+",",","-",".","/",
    "0","1","2","3","4","5","6","7","8","9",":",";","<","=",">","?",
    "@","A","B","C","D","E","F","G","H","I","J","K","L","M","N","O",
    "P","Q","R","S","T","U","V","W","X","Y","Z","[","\\","]","^","_",
    "chr96","a","b","c","d","e","f","g","h","i","j","k","l","m","n","o",
    "p","q","r","s","t","u","v","w","x","y","z","{","|","}","~">>

\* chr(n): any other character (and the grave accent, which a string of
\* this language cannot hold) is named by its code
CharOfCode(n) ==
  CASE n \in 32..126 -> Ascii[n - 31]
    [] n = 10 -> LF
    [] n = 9  -> "\t"
    [] n = 13 -> "\r"
    [] n = 12 -> "\f"
    [] OTHER  -> "chr" \o ToString(n)

HexDigit == Digit \cup {"a","b","c","d","e","f","A","B","C","D","E","F"}

HexValue(c) ==
  IF c \in Digit THEN (CHOOSE k \in 0..9 : Ascii[k + 17] = c)
  ELSE (CHOOSE k \in 10..15 : LowerChar(c) = LowerSeq[k - 9])

RECURSIVE NumberOf(_, _)
\* the value of the digits ds in the given base
NumberOf(ds, base) ==
  IF ds = <<>> THEN 0
  ELSE NumberOf(SubSeq(ds, 1, Len(ds) - 1), base) * base + HexValue(ds[Len(ds)])

\* a character that stands for an escape Python rejects
BadEscape == "<bad escape>"

\* the one-character escapes that name a control character
SimpleEscape(e) ==
  CASE e = "n" -> LF
    [] e = "t" -> "\t"
    [] e = "r" -> "\r"
    [] e = "f" -> "\f"
    [] e = "a" -> CharOfCode(7)
    [] e = "b" -> CharOfCode(8)
    [] e = "v" -> CharOfCode(11)

\* how many of the characters of b from k on, at most n, are in the set ds
RECURSIVE CountIn(_, _, _, _)
CountIn(b, k, n, ds) ==
  IF n = 0 \/ k > Len(b) \/ b[k] \notin ds THEN 0
  ELSE 1 + CountIn(b, k + 1, n - 1, ds)

RECURSIVE Decode(_, _, _)
\* the characters a string literal's body b denotes, from position k on:
\* Python's escape decoding of a str (or, with bytes, a bytes) literal
Decode(b, k, bytes) ==
  IF k > Len(b) THEN <<>>
  ELSE IF b[k] # BS THEN <<b[k]>> \o Decode(b, k + 1, bytes)
  ELSE LET e == b[k + 1] IN
    CASE e \in {BS, SQ, DQ} -> <<e>> \o Decode(b, k + 2, bytes)
      [] e = LF -> Decode(b, k + 2, bytes)
      [] e \in {"n","t","r","f","a","b","v"} ->
           <<SimpleEscape(e)>> \o Decode(b, k + 2, bytes)
      [] e \in OctDigit ->
           LET n == CountIn(b, k + 1, 3, OctDigit)
               c == NumberOf(SubSeq(b, k + 1, k + n), 8)
           IN  IF bytes /\ c > 255 THEN <<BadEscape>>
               ELSE <<CharOfCode(c)>> \o Decode(b, k + 1 + n, bytes)
      [] e = "x" ->
           IF CountIn(b, k + 2, 2, HexDigit) < 2 THEN <<BadEscape>>
           ELSE <<CharOfCode(NumberOf(SubSeq(b, k + 2, k + 3), 16))>>
                  \o Decode(b, k + 4, bytes)
      [] e = "u" /\ ~bytes ->
           IF CountIn(b, k + 2, 4, HexDigit) < 4 THEN <<BadEscape>>
           ELSE <<CharOfCode(NumberOf(SubSeq(b, k + 2, k + 5), 16))>>
                  \o Decode(b, k + 6, bytes)
      [] e \in {"U", "N"} /\ ~bytes -> <<BadEscape>>
      [] OTHER -> <<BS, e>> \o Decode(b, k + 2, bytes)

RECURSIVE StrEnd(_, _, _, _)
\* where the string literal opened by quote q (three of them when triple)
\* closes, scanning s from j: the place of the closing quote, 0 when the
\* literal does not close
StrEnd(s, j, q, triple) ==
  IF j > Len(s) THEN 0
  ELSE IF s[j] = BS THEN (IF j + 1 > Len(s) THEN 0 ELSE StrEnd(s, j + 2, q, triple))
  ELSE IF ~triple /\ s[j] = LF THEN 0
  ELSE IF s[j] = q /\ (~triple \/ (j + 2 <= Len(s) /\ s[j + 1] = q /\ s[j + 2] = q))
       THEN j
  ELSE StrEnd(s, j + 1, q, triple)

RECURSIVE WordEnd(_, _)
\* the last place of the run of word characters of s that starts at i
WordEnd(s, i) == IF i < Len(s) /\ IsWord(s[i + 1]) THEN WordEnd(s, i + 1) ELSE i

RECURSIVE NumEnd(_, _)
\* the last place of the run of word characters and dots that starts at i
NumEnd(s, i) ==
  IF i < Len(s) /\ (IsWord(s[i + 1]) \/ s[i + 1] = ".") THEN NumEnd(s, i + 1) ELSE i

\* the prefixes of a string literal, lower-cased
StrPrefixes ==
  { <<>>, <<"r">>, <<"u">>, <<"b">>, <<"f">>,
    <<"b","r">>, <<"r","b">>, <<"f","r">>, <<"r","f">> }

BadTok == [k |-> "bad", v |-> <<>>]

Range(f) == {f[x] : x \in DOMAIN f}

\* the body of a string literal as its prefix has it decoded: a raw
\* literal's body is taken as it is
DecodeBody(pre, body) ==
  IF "r" \in Range(pre) THEN body ELSE Decode(body, 1, "b" \in Range(pre))

\* the token of a closed literal with the decoded characters dec, and the
\* place next after it; an escape Python rejects makes it a BadTok
StringDecoded(pre, dec, next) ==
  IF BadEscape \in Range(dec) THEN [tok |-> BadTok, next |-> next]
  ELSE [tok  |-> [k |-> IF "b" \in Range(pre) THEN "bytes" ELSE "str", v |-> dec],
        next |-> next]

\* the literal whose body starts at first and whose closing quote is at e
\* (0: it does not close); an f-string is no literal for literal_eval
StringClosed(s, pre, triple, first, e) ==
  IF e = 0 \/ "f" \in Range(pre) THEN [tok |-> BadTok, next |-> Len(s) + 1]
  ELSE StringDecoded(pre, DecodeBody(pre, SubSeq(s, first, e - 1)),
                     IF triple THEN e + 3 ELSE e + 1)

\* the string literal of s whose opening quote is at i, with prefix pre:
\* its token and the place after it
StringTok(s, pre, i) ==
  LET triple == i + 2 <= Len(s) /\ s[i + 1] = s[i] /\ s[i + 2] = s[i]
      first  == IF triple THEN i + 3 ELSE i + 1
  IN  StringClosed(s, pre, triple, first, StrEnd(s, first, s[i], triple))

RECURSIVE Tokens(_, _, _)

\* the tokens of s from i on after the token st.tok, which ends before st.next
TokensAfter(s, st, depth) == <<st.tok>> \o Tokens(s, st.next, depth)

\* the number token that starts at i and ends at e, and the tokens after it
NumberTok(s, i, e, depth) ==
  <<[k |-> "num", v |-> SubSeq(s, i, e)]>> \o Tokens(s, e + 1, depth)

\* the word that starts at i and ends at e: the prefix of a string literal
\* when a quote follows it, else a name
WordTok(s, i, e, depth) ==
  IF e < Len(s) /\ s[e + 1] \in {DQ, SQ} /\ ToLower(SubSeq(s, i, e)) \in StrPrefixes
  THEN TokensAfter(s, StringTok(s, ToLower(SubSeq(s, i, e)), e + 1), depth)
  ELSE <<[k |-> "name", v |-> SubSeq(s, i, e)]>> \o Tokens(s, e + 1, depth)

\* Python's tokens of s from place i on, depth parentheses being open; a
\* BadTok where the tokenizer (or the f-string rule of literal_eval) fails
Tokens(s, i, depth) ==
  IF i > Len(s) THEN <<>>
  ELSE LET c == s[i] IN
    CASE c \in {" ", "\t", "\f"} -> Tokens(s, i + 1, depth)
      [] c \in {LF, "\r"} ->
           IF depth > 0 THEN Tokens(s, i + 1, depth) ELSE <<BadTok>>
      [] c = BS ->
           IF i < Len(s) /\ s[i + 1] = LF /\ i + 1 < Len(s)
           THEN Tokens(s, i + 2, depth) ELSE <<BadTok>>
      [] c = "(" -> <<[k |-> "op", v |-> <<c>>]>> \o Tokens(s, i + 1, depth + 1)
      [] c = ")" -> <<[k |-> "op", v |-> <<c>>]>> \o Tokens(s, i + 1, depth - 1)
      [] c = "," -> <<[k |-> "op", v |-> <<c>>]>> \o Tokens(s, i + 1, depth)
      [] c \in {DQ, SQ} -> TokensAfter(s, StringTok(s, <<>>, i), depth)
      [] c \in Digit \/ (c = "." /\ i < Len(s) /\ s[i + 1] \in Digit) ->
           NumberTok(s, i, NumEnd(s, i), depth)
      [] IsWord(c) /\ c \notin Digit -> WordTok(s, i, WordEnd(s, i), depth)
      [] OTHER -> <<BadTok>>

\* the value of a number token: a decimal integer, or digits with one dot
NumValue(cs) ==
  LET dots == {k \in 1..Len(cs) : cs[k] = "."}
  IN  IF \A k \in 1..Len(cs) : cs[k] \in Digit
      THEN IF \A k \in 1..Len(cs) : cs[k] = "0" THEN IntVal(<<"0">>)
           ELSE IF cs[1] = "0" THEN Fail
           ELSE IntVal(cs)
      ELSE IF /\ Cardinality(dots) = 1
              /\ Len(cs) > 1
              /\ \A k \in 1..Len(cs) : cs[k] \in Digit \cup {"."}
           THEN FloatVal(cs)
           ELSE Fail

NoParse == [ok |-> FALSE, val |-> Fail, next |-> 0]

IsOp(toks, p, c) == p <= Len(toks) /\ toks[p] = [k |-> "op", v |-> <<c>>]

RECURSIVE StrRunEnd(_, _)
\* the last of the adjacent string tokens that start at p
StrRunEnd(toks, p) ==
  IF p < Len(toks) /\ toks[p + 1].k \in {"str", "bytes"}
  THEN StrRunEnd(toks, p + 1) ELSE p

RECURSIVE Concat(_, _, _)
\* the characters of the tokens p..e, one after the other
Concat(toks, p, e) ==
  IF p > e THEN <<>> ELSE toks[p].v \o Concat(toks, p + 1, e)

RECURSIVE ParseAtom(_, _)
RECURSIVE ParseItems(_, _, _)

Parsed(val, next) == [ok |-> TRUE, val |-> val, next |-> next]

\* the adjacent string literals p..e: one str, or one bytes, never a mix
StringAtom(toks, p, e) ==
  IF \E j \in p..e : toks[j].k # toks[p].k THEN NoParse
  ELSE IF toks[p].k = "str" THEN Parsed(StrVal(Concat(toks, p, e)), e + 1)
  ELSE Parsed(BytesVal(Concat(toks, p, e)), e + 1)

NumberAtom(val, p) == IF val = Fail THEN NoParse ELSE Parsed(val, p + 1)

\* True, False and None are the only names of a literal
NameAtom(name, p) ==
  CASE name = <<"T","r","u","e">>     -> Parsed(BoolVal(name), p + 1)
    [] name = <<"F","a","l","s","e">> -> Parsed(BoolVal(name), p + 1)
    [] name = <<"N","o","n","e">>     -> Parsed(NoneVal, p + 1)
    [] OTHER                          -> NoParse

\* the expression list r of a parenthesis, which must close after it
ParenAtom(toks, r) ==
  IF r.ok /\ IsOp(toks, r.next, ")") THEN Parsed(r.val, r.next + 1) ELSE NoParse

\* one operand at token p: adjacent string literals, a number, a constant
\* name, or a parenthesised expression list
ParseAtom(toks, p) ==
  IF p > Len(toks) THEN NoParse
  ELSE CASE toks[p].k \in {"str", "bytes"} -> StringAtom(toks, p, StrRunEnd(toks, p))
         [] toks[p].k = "num"  -> NumberAtom(NumValue(toks[p].v), p)
         [] toks[p].k = "name" -> NameAtom(toks[p].v, p)
         [] IsOp(toks, p, "(") ->
              IF IsOp(toks, p + 1, ")") THEN Parsed(TupleVal(<<>>), p + 2)
              ELSE ParenAtom(toks, ParseItems(toks, p + 1, <<>>))
         [] OTHER -> NoParse

\* the expression list whose items acc are followed by the operand a: one
\* operand, or a tuple when a comma follows an operand
ItemsAfter(toks, acc, a) ==
  IF ~a.ok THEN NoParse
  ELSE IF IsOp(toks, a.next, ",")
  THEN IF a.next + 1 > Len(toks) \/ IsOp(toks, a.next + 1, ")")
       THEN Parsed(TupleVal(Append(acc, a.val)), a.next + 1)
       ELSE ParseItems(toks, a.next + 1, Append(acc, a.val))
  ELSE IF acc = <<>> THEN a
  ELSE Parsed(TupleVal(Append(acc, a.val)), a.next)

\* an expression list from token p, acc being the items before it
ParseItems(toks, p, acc) == ItemsAfter(toks, acc, ParseAtom(toks, p))

\* the value of the expression list r, which must take all the tokens
WholeValue(toks, r) == IF r.ok /\ r.next = Len(toks) + 1 THEN r.val ELSE Fail

EvalTokens(toks) ==
  IF toks = <<>> \/ BadTok \in Range(toks) THEN Fail
  ELSE WholeValue(toks, ParseItems(toks, 1, <<>>))

\* ast.literal_eval(s): the value, or Fail for SyntaxError and ValueError
LiteralEval(s) == EvalTokens(Tokens(s, 1, 0))

(***************************************************************************)
(* ReActAgent._parse_single_arg and ReActAgent.parse_action.               *)
(***************************************************************************)
StartsWith(s, c) == s # <<>> /\ s[1] = c
EndsWith(s, c)   == s # <<>> /\ s[Len(s)] = c

\* the except branch of _parse_single_arg: the raw text, one layer of
\* matching quotes stripped
RawFallback(arg_str) ==
  IF \/ StartsWith(arg_str, DQ) /\ EndsWith(arg_str, DQ)
     \/ StartsWith(arg_str, SQ) /\ EndsWith(arg_str, SQ)
  THEN StrVal(SubSeq(arg_str, 2, Len(arg_str) - 1))
  ELSE StrVal(arg_str)

ValueOrRaw(arg_str, val) == IF val # Fail THEN val ELSE RawFallback(arg_str)

ParseStripped(arg_str) == ValueOrRaw(arg_str, LiteralEval(arg_str))

\* _parse_single_arg: the literal's value, else the raw text
ParseSingleArg(arg) == ParseStripped(Strip(arg))

\* string_char before any string was opened
NoChar == "None"

\* the scanner's state before the first character (agent.py 171-176)
ScanInit ==
  [args |-> <<>>, current_arg |-> <<>>, in_string |-> FALSE,
   string_char |-> NoChar, paren_depth |-> 0]

\* a test that ends a quoted string at its quote, whatever comes before
ClosesIgnoringEscape(st, s, i) == s[i] = st.string_char

\* the test that ends a quoted string: the character at i is the quote that
\* opened it and the character before it is no backslash
ClosesString(st, s, i) ==
  s[i] = st.string_char /\ (i = 1 \/ s[i - 1] # BS)

\* a scanner that ends an argument at every comma outside a string
SplitsAtAnyDepth(st, s, i) == s[i] = ","

\* the test that ends an argument: a comma, no parenthesis open
SplitsHere(st, s, i) == s[i] = "," /\ st.paren_depth = 0

\* one turn of the scanning loop, on the character at place i of args_str
ScanChar(st, s, i) ==
  LET char == s[i] IN
  IF ~st.in_string
  THEN CASE char \in {DQ, SQ} ->
              [st EXCEPT !.in_string = TRUE, !.string_char = char,
                         !.current_arg = Append(@, char)]
         [] char = "(" ->
              [st EXCEPT !.paren_depth = @ + 1, !.current_arg = Append(@, char)]
         [] char = ")" ->
              [st EXCEPT !.paren_depth = @ - 1, !.current_arg = Append(@, char)]
         [] SplitsHere(st, s, i) ->
              [st EXCEPT !.args = Append(@, ParseSingleArg(Strip(st.current_arg))),
                         !.current_arg = <<>>]
         [] OTHER ->
              [st EXCEPT !.current_arg = Append(@, char)]
  ELSE IF ClosesString(st, s, i)
       THEN [st EXCEPT !.current_arg = Append(@, char),
                       !.in_string = FALSE, !.string_char = NoChar]
       ELSE [st EXCEPT !.current_arg = Append(@, char)]

RECURSIVE ScanTo(_, _)
\* the scanner's state after the first k characters of args_str
ScanTo(s, k) == IF k = 0 THEN ScanInit ELSE ScanChar(ScanTo(s, k - 1), s, k)

\* lines 206-208 with the last parameter added also when it is blank
LastArgAlways(st) == Append(st.args, ParseSingleArg(Strip(st.current_arg)))

\* lines 206-208: the last parameter, if it is not blank
LastArg(st) ==
  IF Strip(st.current_arg) # <<>>
  THEN Append(st.args, ParseSingleArg(Strip(st.current_arg)))
  ELSE st.args

\* the arguments of args_str: the scan, then the last parameter
ScanArgs(s) == LastArg(ScanTo(s, Len(s)))

\* re.match(r'(\w+)\((.*)\)', code_str, re.DOTALL): the word characters at
\* the start, a "(", and the text up to the last ")" of code_str
WordPrefixLen(s) == IF s # <<>> /\ IsWord(s[1]) THEN WordEnd(s, 1) ELSE 0

LastClose(s) ==
  LET cl == {j \in 1..Len(s) : s[j] = ")"}
  IN  IF cl = {} THEN 0 ELSE CHOOSE j \in cl : \A m \in cl : m <= j

Matches(s) ==
  LET w == WordPrefixLen(s)
  IN  w >= 1 /\ Len(s) > w /\ s[w + 1] = "(" /\ LastClose(s) > w + 1

\* parse_action(code_str): the tool name and the arguments, or the
\* ValueError "Invalid function call syntax"
ParseAction(code_str) ==
  IF ~Matches(code_str)
  THEN [ok |-> FALSE, func_name |-> <<>>, args |-> <<>>]
  ELSE LET w        == WordPrefixLen(code_str)
           args_str == Strip(SubSeq(code_str, w + 2, LastClose(code_str) - 1))
       IN  [ok |-> TRUE, func_name |-> SubSeq(code_str, 1, w),
            args |-> ScanArgs(args_str)]

(***************************************************************************)
(* The markers of a response, and the searches ReActAgent.run makes.       *)
(***************************************************************************)
ThoughtOpen  == "<thought>"
ThoughtClose == "</thought>"
FinalOpen    == "<final_answer>"
FinalClose   == "</final_answer>"
ActionOpen   == "<action>"
ActionClose  == "</action>"
ObsOpen      == "<observation>"
ObsClose     == "</observation>"

NoMatch == [found |-> FALSE, group |-> <<>>]

\* a search that takes the last span of the response
SearchLastSpan(content, open, close) ==
  LET starts == {i \in 1..Len(content) :
                   content[i] = open /\ \E j \in (i + 1)..Len(content) : content[j] = close}
  IN  IF starts = {} THEN NoMatch
      ELSE LET i == CHOOSE x \in starts : \A y \in starts : x >= y
               j == CHOOSE x \in (i + 1)..Len(content) :
                      /\ content[x] = close
                      /\ \A y \in (i + 1)..(x - 1) : content[y] # close
           IN  [found |-> TRUE, group |-> SubSeq(content, i + 1, j - 1)]

\* re.search(open + r"(.*?)" + close, content, re.DOTALL): the leftmost
\* opening marker that a closing one follows, up to the nearest closing one
SearchSpan(content, open, close) ==
  LET starts == {i \in 1..Len(content) :
                   content[i] = open /\ \E j \in (i + 1)..Len(content) : content[j] = close}
  IN  IF starts = {} THEN NoMatch
      ELSE LET i == CHOOSE x \in starts : \A y \in starts : x <= y
               j == CHOOSE x \in (i + 1)..Len(content) :
                      /\ content[x] = close
                      /\ \A y \in (i + 1)..(x - 1) : content[y] # close
           IN  [found |-> TRUE, group |-> SubSeq(content, i + 1, j - 1)]

\* "<final_answer>" in content
HasFinalMarker(content) == FinalOpen \in Range(content)

(***************************************************************************)
(* The tools of create_project_tools: each name with the least and the     *)
(* greatest number of positional arguments its handler takes, and whether  *)
(* the handler lets an exception out.                                      *)
(***************************************************************************)
read_file            == <<"r","e","a","d","_","f","i","l","e">>
write_to_file        == <<"w","r","i","t","e","_","t","o","_","f","i","l","e">>
run_terminal_command ==
  <<"r","u","n","_","t","e","r","m","i","n","a","l","_","c","o","m","m","a","n","d">>
web_search           == <<"w","e","b","_","s","e","a","r","c","h">>
fetch_url            == <<"f","e","t","c","h","_","u","r","l">>
host_info            == <<"h","o","s","t","_","i","n","f","o">>

ToolNames ==
  {read_file, write_to_file, run_terminal_command, web_search, fetch_url, host_info}

MinArgs(name) ==
  CASE name = write_to_file -> 2
    [] name = host_info     -> 0
    [] OTHER                -> 1

MaxArgs(name) ==
  CASE name = write_to_file -> 2
    [] name = host_info     -> 0
    [] name = web_search    -> 3
    [] name = fetch_url     -> 2
    [] OTHER                -> 1

\* web_search and fetch_url turn their own failures into a returned text
MayRaise(name) == name \notin {web_search, fetch_url}

\* the texts the model does not look into
SystemPrompt == <<"<system prompt>">>
ToolOutput   == <<"<tool output>">>
HandlerError == <<"<handler exception message>">>
ArityError   == <<"<TypeError: positional arguments>">>

\* self.tools[tool_name](*args): what the call does.  An unregistered name is
\* a KeyError, whose text is the quoted name; a wrong number of arguments is
\* a TypeError; then the handler runs and returns or raises (outcome).
CallTool(name, args, outcome) ==
  IF name \notin ToolNames
  THEN [exc |-> "KeyError", text |-> <<SQ>> \o name \o <<SQ>>, ran |-> FALSE]
  ELSE IF Len(args) < MinArgs(name) \/ Len(args) > MaxArgs(name)
  THEN [exc |-> "TypeError", text |-> ArityError, ran |-> FALSE]
  ELSE IF outcome = "raises"
  THEN [exc |-> "Exception", text |-> HandlerError, ran |-> TRUE]
  ELSE [exc |-> "", text |-> ToolOutput, ran |-> TRUE]

\* handlers of line 92 that would let an exception of the call through
CaughtNoKeyError(call) == call.exc \in {"TypeError", "Exception"}

CaughtKeyErrorOnly(call) == call.exc = "KeyError"

\* except Exception as e: every exception of the call is caught
Caught(call) == call.exc \in {"KeyError", "TypeError", "Exception"}

\* observation: the returned text, or f"Tool execution error: {str(e)}"
Observation(call) ==
  IF call.exc = "" THEN call.text
  ELSE <<"Tool execution error: ">> \o call.text

\* an observation appended in the assistant's role
ObsMsgAsAssistant(observation) ==
  [role |-> "assistant", content |-> <<ObsOpen>> \o observation \o <<ObsClose>>]

\* {"role": "user", "content": f"<observation>{observation}</observation>"}
ObsMsg(observation) ==
  [role |-> "user", content |-> <<ObsOpen>> \o observation \o <<ObsClose>>]

\* a gate that prompts for no tool
NeverNeedsConfirmation(name) == FALSE

\* Only terminal commands need user confirmation
NeedsConfirmation(name) == name = run_terminal_command

\* a gate that takes every answer beginning with y or Y for a yes
DeclinedUnlessYes(should_continue) ==
  should_continue = <<>> \/ LowerChar(should_continue[1]) # "y"

\* a gate that cancels on "n" only
DeclinedOnlyNo(should_continue) == ToLower(should_continue) = <<"n">>

\* should_continue.lower() != 'y'
Declined(should_continue) == ToLower(should_continue) # <<"y">>

\* ', '.join(args) raises TypeError unless every argument is a str
JoinRaises(args) == \E k \in 1..Len(args) : args[k].t # "str"

\* the messages run returns
StepLimitMsg ==
  <<"Reached maximum step limit (", ToString(MAX_STEPS),
    "). Stopping to avoid infinite loop.">>
CancelMsg == <<"Operation cancelled by user">>

\* what the turn makes of a response, agent.py 71-83
NoResult == [kind |-> "none", value |-> <<>>, exc |-> "", line |-> 0]
Returns(kind, value) == [kind |-> kind, value |-> value, exc |-> "", line |-> 0]
Raises(exc, line) == [kind |-> "raise", value |-> <<>>, exc |-> exc, line |-> line]

\* lines 71-74: the final answer has priority; final_answer.group(1) of a
\* search that found nothing is an AttributeError
FinalAnswerOf(content) ==
  LET final_answer == SearchSpan(content, FinalOpen, FinalClose)
  IN  IF final_answer.found THEN Returns("final_answer", final_answer.group)
      ELSE Raises("AttributeError", 74)

\* lines 81-83 with the syntax error swallowed: the turn goes on with no tool
ActionParsedLenient(pa) ==
  IF ~pa.ok
  THEN [res |-> NoResult, tool_name |-> <<>>, args |-> <<>>]
  ELSE IF JoinRaises(pa.args)
  THEN [res |-> Raises("TypeError", 83), tool_name |-> pa.func_name, args |-> pa.args]
  ELSE [res |-> NoResult, tool_name |-> pa.func_name, args |-> pa.args]

\* lines 81-83: parse_action, and the log line that joins the arguments
ActionParsed(pa) ==
  IF ~pa.ok
  THEN [res |-> Raises("ValueError", 165), tool_name |-> <<>>, args |-> <<>>]
  ELSE IF JoinRaises(pa.args)
  THEN [res |-> Raises("TypeError", 83), tool_name |-> pa.func_name, args |-> pa.args]
  ELSE [res |-> NoResult, tool_name |-> pa.func_name, args |-> pa.args]

\* lines 78-81 with the missing action let through
ActionFoundLenient(action_match) ==
  IF ~action_match.found
  THEN [res |-> NoResult, tool_name |-> <<>>, args |-> <<>>]
  ELSE ActionParsed(ParseAction(action_match.group))

\* lines 78-81: no action span is a RuntimeError
ActionFound(action_match) ==
  IF ~action_match.found
  THEN [res |-> Raises("RuntimeError", 79), tool_name |-> <<>>, args |-> <<>>]
  ELSE ActionParsed(ParseAction(action_match.group))

\* lines 76-83: the first action span, parsed
ActionOf(content) == ActionFound(SearchSpan(content, ActionOpen, ActionClose))

\* lines 71-83 with the two searches in the other order
ExtractActionFirst(content) ==
  IF SearchSpan(content, ActionOpen, ActionClose).found
  THEN ActionOf(content)
  ELSE [res |-> FinalAnswerOf(content), tool_name |-> <<>>, args |-> <<>>]

\* lines 71-83 on one response
Extract(content) ==
  IF HasFinalMarker(content)
  THEN [res |-> FinalAnswerOf(content), tool_name |-> <<>>, args |-> <<>>]
  ELSE ActionOf(content)

(***************************************************************************)
(* The inputs of a run: the responses of the reasoning source and the      *)
(* answers typed at the confirmation prompt.                               *)
(***************************************************************************)
Quoted(cs) == <<DQ>> \o cs \o <<DQ>>
CallText(name, body) == name \o <<"(">> \o body \o <<")">>
ActionSpan(call) == <<ActionOpen>> \o call \o <<ActionClose>>
FinalSpan(cs) == <<FinalOpen>> \o cs \o <<FinalClose>>
ThoughtSpan == <<ThoughtOpen, "t", ThoughtClose>>

R_ReadFile   == ThoughtSpan \o ActionSpan(CallText(read_file, Quoted(<<"a">>)))
R_Terminal   == ActionSpan(CallText(run_terminal_command, Quoted(<<"l","s">>)))
R_Unknown    == ActionSpan(CallText(<<"n","o","s","u","c","h">>, Quoted(<<"a">>)))
R_WrongArity ==
  ActionSpan(CallText(read_file, Quoted(<<"a">>) \o <<",">> \o Quoted(<<"b">>)))
R_HostInfo   == ActionSpan(CallText(host_info, <<>>))
R_IntArg     ==
  ActionSpan(CallText(web_search, Quoted(<<"q">>) \o <<","," ","3">>))
R_TwoActions ==
  ActionSpan(CallText(fetch_url, Quoted(<<"u">>)))
    \o ActionSpan(CallText(read_file, Quoted(<<"a">>) \o <<",">> \o Quoted(<<"b">>)))
R_Final      == ThoughtSpan \o FinalSpan(<<"o","k">>)
R_Both       == ActionSpan(CallText(read_file, Quoted(<<"a">>))) \o FinalSpan(<<"o","k">>)
R_FinalOpen  == <<FinalOpen, "o", "k">>
R_NoTags     == <<"h","i">>
R_OpenAction == <<ActionOpen>> \o CallText(read_file, Quoted(<<"a">>))
R_BadSyntax  == ActionSpan(read_file \o <<" ">> \o Quoted(<<"a">>))

Responses ==
  {R_ReadFile, R_Terminal, R_Unknown, R_WrongArity, R_HostInfo, R_IntArg,
   R_TwoActions, R_Final, R_Both, R_FinalOpen, R_NoTags, R_OpenAction,
   R_BadSyntax}

Answers == { <<"y">>, <<"Y">>, <<"n">>, <<>>, <<"y","e","s">>, <<" ","y">> }

UserInputs == { <<"t","a","s","k">> }

(***************************************************************************)
(* The state.                                                              *)
(***************************************************************************)
VARIABLES
  pc,              \* where run is: idle, loop, confirm, dispatch, done
  messages,        \* the conversation history
  step_count,
  content,         \* the response of the turn
  tool_name, args, \* the parsed action of the turn
  should_continue, \* the answer of the turn's confirmation
  result,          \* what run returned or raised
  model_calls,     \* the calls of the reasoning source so far
  prompts,         \* the confirmation prompts shown: step, tool, answer
  invoked,         \* the handlers invoked: step, tool, outcome
  code_str,        \* the parser's specification: the action string,
  parsed,          \*   what parse_action made of it,
  ppc              \*   and whether it was called

loopVars ==
  <<pc, messages, step_count, content, tool_name, args, should_continue,
    result, model_calls, prompts, invoked>>
parseVars == <<code_str, parsed, ppc>>
vars == <<loopVars, parseVars>>

NotParsed == [ok |-> FALSE, func_name |-> <<>>, args |-> <<>>]

LoopInit ==
  /\ pc = "idle"
  /\ messages = <<>>
  /\ step_count = 0
  /\ content = <<>>
  /\ tool_name = <<>>
  /\ args = <<>>
  /\ should_continue = <<>>
  /\ result = NoResult
  /\ model_calls = 0
  /\ prompts = <<>>
  /\ invoked = <<>>

Init ==
  /\ LoopInit
  /\ code_str = <<>>
  /\ parsed = NotParsed
  /\ ppc = "off"

(***************************************************************************)
(* ReActAgent.run.                                                         *)
(***************************************************************************)
\* lines 50-55: the history starts with the system prompt and the question
Run(user_input) ==
  /\ pc = "idle"
  /\ messages' =
       << [role |-> "system", content |-> SystemPrompt],
          [role |-> "user",
           content |-> <<"<question>">> \o user_input \o <<"</question>">>] >>
  /\ step_count' = 0
  /\ pc' = "loop"
  /\ UNCHANGED <<content, tool_name, args, should_continue, result,
                 model_calls, prompts, invoked, parseVars>>

\* the test of line 59 one step late
OverLimitLate(n) == n > MAX_STEPS + 1

\* step_count > MAX_STEPS after the increment of line 58
OverLimit(n) == n > MAX_STEPS

\* lines 58-60: the step limit
StepLimit ==
  /\ pc = "loop"
  /\ OverLimit(step_count + 1)
  /\ step_count' = step_count + 1
  /\ result' = Returns("step_limit", StepLimitMsg)
  /\ pc' = "done"
  /\ UNCHANGED <<messages, content, tool_name, args, should_continue,
                 model_calls, prompts, invoked, parseVars>>

\* how the turn goes on after lines 71-83 made x of the response
TurnEnds(x) ==
  /\ result' = x.res
  /\ tool_name' = x.tool_name
  /\ args' = x.args
  /\ pc' = IF x.res = NoResult THEN "confirm" ELSE "done"

\* lines 58-83 with call_model (135-160): the response is appended as an
\* assistant message, then searched and parsed
ModelTurn(response) ==
  /\ pc = "loop"
  /\ ~OverLimit(step_count + 1)
  /\ step_count' = step_count + 1
  /\ model_calls' = model_calls + 1
  /\ content' = response
  /\ messages' = Append(messages, [role |-> "assistant", content |-> response])
  /\ TurnEnds(Extract(response))
  /\ UNCHANGED <<should_continue, prompts, invoked, parseVars>>

\* a call_model that appends an assistant message before it raises
ModelFailsAfterAppend ==
  /\ pc = "loop"
  /\ ~OverLimit(step_count + 1)
  /\ step_count' = step_count + 1
  /\ model_calls' = model_calls + 1
  /\ messages' = Append(messages, [role |-> "assistant", content |-> <<>>])
  /\ result' = Raises("ReasonerError", 150)
  /\ pc' = "done"
  /\ UNCHANGED <<content, tool_name, args, should_continue,
                 prompts, invoked, parseVars>>

\* lines 58-63 when the call of line 150 raises: nothing is appended
ModelFails ==
  /\ pc = "loop"
  /\ ~OverLimit(step_count + 1)
  /\ step_count' = step_count + 1
  /\ model_calls' = model_calls + 1
  /\ result' = Raises("ReasonerError", 150)
  /\ pc' = "done"
  /\ UNCHANGED <<messages, content, tool_name, args, should_continue,
                 prompts, invoked, parseVars>>

\* lines 85-88: the prompt for a terminal command, "y" for any other tool
Confirm(answer) ==
  /\ pc = "confirm"
  /\ should_continue' = IF NeedsConfirmation(tool_name) THEN answer ELSE <<"y">>
  /\ prompts' = IF NeedsConfirmation(tool_name)
                THEN Append(prompts, [step |-> step_count, tool |-> tool_name,
                                      answer |-> answer])
                ELSE prompts
  /\ IF Declined(should_continue')
     THEN /\ result' = Returns("cancelled", CancelMsg)
          /\ pc' = "done"
     ELSE /\ result' = result
          /\ pc' = "dispatch"
  /\ UNCHANGED <<messages, step_count, content, tool_name, args, model_calls,
                 invoked, parseVars>>

\* lines 90-96 run twice in one turn
DispatchTwice(outcome) ==
  /\ pc = "dispatch"
  /\ outcome = "raises" => MayRaise(tool_name)
  /\ LET call == CallTool(tool_name, args, outcome)
         entry == [step |-> step_count, tool |-> tool_name, outcome |-> outcome]
         obs == ObsMsg(Observation(call))
     IN  /\ invoked' = IF call.ran THEN invoked \o <<entry, entry>> ELSE invoked
         /\ messages' = messages \o <<obs, obs>>
  /\ pc' = "loop"
  /\ UNCHANGED <<step_count, content, tool_name, args, should_continue,
                 result, model_calls, prompts, parseVars>>

\* lines 90-96: the call, its exception caught, the observation appended
Dispatch(outcome) ==
  /\ pc = "dispatch"
  /\ outcome = "raises" => MayRaise(tool_name)
  /\ LET call == CallTool(tool_name, args, outcome)
     IN  /\ invoked' = IF call.ran
                       THEN Append(invoked, [step |-> step_count, tool |-> tool_name,
                                             outcome |-> outcome])
                       ELSE invoked
         /\ IF call.exc # "" /\ ~Caught(call)
            THEN /\ result' = Raises(call.exc, 91)
                 /\ pc' = "done"
                 /\ messages' = messages
            ELSE /\ result' = result
                 /\ pc' = "loop"
                 /\ messages' = Append(messages, ObsMsg(Observation(call)))
  /\ UNCHANGED <<step_count, content, tool_name, args, should_continue,
                 model_calls, prompts, parseVars>>

Next ==
  \/ \E user_input \in UserInputs : Run(user_input)
  \/ StepLimit
  \/ \E response \in Responses : ModelTurn(response)
  \/ ModelFails
  \/ \E answer \in Answers : Confirm(answer)
  \/ \E outcome \in {"returns", "raises"} : Dispatch(outcome)

Spec == Init /\ [][Next]_vars

\* run when every call it waits for returns: the call of the reasoning
\* source, the prompt and the tool's handler each come back, so a step that
\* can be taken is taken
FairSpec == Spec /\ WF_vars(Next)

(***************************************************************************)
(* parse_action on its own: the action string is any call f(body) whose    *)
(* body is at most MaxLen characters of Sigma, or one of the examples.     *)
(***************************************************************************)
Sigma == {DQ, SQ, "(", ")", ",", BS, " ", "a", "9"}

Bodies == UNION {[1..n -> Sigma] : n \in 0..MaxLen}

\* foo(bar(1,2), "x,y")
Ex_Nested ==
  <<"f","o","o","(","b","a","r","(","1",",","2",")",","," ",DQ,"x",",","y",DQ,")">>

\* foo("a,b", "c")
Ex_QuotedComma ==
  <<"f","o","o","(",DQ,"a",",","b",DQ,","," ",DQ,"c",DQ,")">>

\* foo("bar", 3, true)
Ex_Typed ==
  <<"f","o","o","(",DQ,"b","a","r",DQ,","," ","3",","," ","t","r","u","e",")">>

\* write_to_file("f.txt","a\nb"), with a backslash and an n
Ex_Newline ==
  write_to_file \o <<"(",DQ,"f",".","t","x","t",DQ,",",DQ,"a",BS,"n","b",DQ,")">>

\* foo("a\\","b"), the first string ending in two backslashes
Ex_EscapedBackslash ==
  <<"f","o","o","(",DQ,"a",BS,BS,DQ,",",DQ,"b",DQ,")">>

\* strings that are no call, or a call with text before or after it
Ex_NoCall == { <<>>, <<"f">>, <<"f","(">>, <<"(",")">>, <<" ","f","(",")">>,
               <<"f","(",")"," ","x">>, <<"f"," ","(",")">> }

Examples ==
  {Ex_Nested, Ex_QuotedComma, Ex_Typed, Ex_Newline, Ex_EscapedBackslash}
    \cup Ex_NoCall

ParseInputs == {CallText(<<"f">>, b) : b \in Bodies} \cup Examples

InitParse ==
  /\ LoopInit
  /\ code_str \in ParseInputs
  /\ parsed = NotParsed
  /\ ppc = "ready"

\* the call parse_action(code_str): it returns, or raises ValueError
DoParse ==
  /\ ppc = "ready"
  /\ parsed' = ParseAction(code_str)
  /\ ppc' = IF parsed'.ok THEN "returned" ELSE "raised"
  /\ UNCHANGED <<code_str, loopVars>>

NextParse == DoParse

SpecParse == InitParse /\ [][NextParse]_vars

(***************************************************************************)
(* What the properties below say of a history.  The response of turn n is  *)
(* messages[2n + 1] and its observation messages[2n + 2].                  *)
(***************************************************************************)
Assistants == {k \in 1..Len(messages) : messages[k].role = "assistant"}

TurnOf(k) == (k - 1) \div 2

ActionText(c) == SearchSpan(c, ActionOpen, ActionClose).group

\* a response that is an action whose call-expression parses, and no final
\* answer
IsParsedAction(c) ==
  /\ ~HasFinalMarker(c)
  /\ SearchSpan(c, ActionOpen, ActionClose).found
  /\ ParseAction(ActionText(c)).ok

ToolOf(c) == ParseAction(ActionText(c)).func_name
ArgsOf(c) == ParseAction(ActionText(c)).args

AllStrings(xs) == \A k \in 1..Len(xs) : xs[k].t = "str"

Affirmative == { <<"y">>, <<"Y">> }

PromptsOfTurn(n) == {k \in 1..Len(prompts) : prompts[k].step = n}
InvokedInTurn(n) == {k \in 1..Len(invoked) : invoked[k].step = n}

\* the gate's decision on the action of turn n: a terminal command is
\* approved by an affirmative answer, any other tool as it is
ApprovedInTurn(c, n) ==
  \/ ToolOf(c) # run_terminal_command
  \/ \E k \in PromptsOfTurn(n) : prompts[k].answer \in Affirmative

IsObservation(m) ==
  /\ m.role = "user"
  /\ Len(m.content) >= 2
  /\ m.content[1] = ObsOpen
  /\ m.content[Len(m.content)] = ObsClose

ErrorObservation(text) ==
  [role |-> "user",
   content |-> <<ObsOpen, "Tool execution error: ">> \o text \o <<ObsClose>>]

\* the run is at the gate or at the dispatch of the response messages[k]
InProgress(k) == k = Len(messages) /\ pc \in {"confirm", "dispatch"}

\* the turn parsed an action, tool_name(args), and logged it
TurnHasAction == tool_name # <<>> /\ AllStrings(args)

\* the gate let the action of the turn through
TurnApproved ==
  \/ tool_name # run_terminal_command
  \/ \E k \in PromptsOfTurn(step_count) : prompts[k].answer \in Affirmative

\* the turn is at the gate or at the dispatch, its response the last message
TurnInProgress ==
  /\ pc \in {"confirm", "dispatch"}
  /\ messages[Len(messages)] = [role |-> "assistant", content |-> content]

\* the turn is over: its response and the observation obs are the last two
\* messages, and the run went on to the next turn
TurnObserved(obs) ==
  /\ Len(messages) >= 4
  /\ messages[Len(messages) - 1] = [role |-> "assistant", content |-> content]
  /\ messages[Len(messages)] = obs
  /\ \/ pc = "loop"
     \/ pc = "done" /\ (result.kind = "step_limit" \/ result.exc = "ReasonerError")

(***************************************************************************)
(* C1.  With a step budget of MAX_STEPS and a reasoning source whose every *)
(* response is a well-formed, approved action and never a final answer,    *)
(* run calls the reasoning source exactly MAX_STEPS times and then returns *)
(* the step-limit message, raising nothing.  As stated this fails: an      *)
(* action with an argument that is no string (C4) ends the run with a      *)
(* TypeError in its first turn.                                            *)
(***************************************************************************)
C1_StepBudget ==
  ( /\ pc = "done"
    /\ \A k \in Assistants : IsParsedAction(messages[k].content)
    /\ result.kind # "cancelled"
    /\ result.exc # "ReasonerError" )
  => /\ result = Returns("step_limit", StepLimitMsg)
     /\ model_calls = MAX_STEPS
     /\ step_count = MAX_STEPS + 1

\* the same with string arguments only, which holds
C1_StepBudgetOfStrings ==
  ( /\ pc = "done"
    /\ \A k \in Assistants :
         IsParsedAction(messages[k].content) /\ AllStrings(ArgsOf(messages[k].content))
    /\ result.kind # "cancelled"
    /\ result.exc # "ReasonerError" )
  => /\ result = Returns("step_limit", StepLimitMsg)
     /\ model_calls = MAX_STEPS
     /\ step_count = MAX_STEPS + 1

C1_BudgetSpent ==
  /\ pc = "done"
  /\ result.kind = "step_limit"
  /\ model_calls = MAX_STEPS
  /\ \A k \in Assistants : IsParsedAction(messages[k].content)

(***************************************************************************)
(* C2.  When the confirmation prompt for run_terminal_command is answered  *)
(* negatively, run returns the cancellation message in that same turn: the *)
(* handler is not invoked, no observation is appended, and the reasoning   *)
(* source is not called again.                                             *)
(***************************************************************************)
C2_DenialCancels ==
  \A k \in 1..Len(prompts) :
    prompts[k].answer \notin Affirmative =>
      /\ pc = "done"
      /\ result = Returns("cancelled", CancelMsg)
      /\ prompts[k].step = step_count
      /\ InvokedInTurn(step_count) = {}
      /\ Len(messages) = 2 * step_count + 1
      /\ messages[Len(messages)] = [role |-> "assistant", content |-> content]
      /\ model_calls = step_count

C2_Denied ==
  /\ pc = "done"
  /\ prompts # <<>>
  /\ prompts[Len(prompts)].answer = <<"n">>
  /\ prompts[Len(prompts)].tool = run_terminal_command
  /\ step_count > 1

(***************************************************************************)
(* C3.  A response with both an <action> span and a <final_answer> span is *)
(* a final answer only: run returns the text enclosed in <final_answer>,   *)
(* nothing is gated or dispatched, and no observation is appended.         *)
(***************************************************************************)
HasBothSpans(c) ==
  /\ SearchSpan(c, ActionOpen, ActionClose).found
  /\ SearchSpan(c, FinalOpen, FinalClose).found

C3_FinalAnswerWins ==
  /\ HasBothSpans(content) =>
       /\ pc = "done"
       /\ result = Returns("final_answer", SearchSpan(content, FinalOpen, FinalClose).group)
       /\ PromptsOfTurn(step_count) = {}
       /\ InvokedInTurn(step_count) = {}
       /\ Len(messages) = 2 * step_count + 1
       /\ messages[Len(messages)] = [role |-> "assistant", content |-> content]
  /\ content = R_Both => result.value = <<"o", "k">>

C3_BothSeen ==
  /\ content = R_Both
  /\ pc = "done"
  /\ result.kind = "final_answer"
  /\ step_count > 1

(***************************************************************************)
(* C4.  For every action whose call-expression parses, of whatever types   *)
(* its arguments are, and which the gate approves, the turn dispatches the *)
(* tool and appends one observation; the run does not abort between the    *)
(* parsing and the append.  As stated this fails: the log line of          *)
(* agent.py:83 joins the arguments and raises TypeError on an integer.     *)
(***************************************************************************)
C4_ApprovedActionObserved ==
  \A k \in Assistants :
    ( /\ IsParsedAction(messages[k].content)
      /\ ApprovedInTurn(messages[k].content, TurnOf(k)) )
    => IF k < Len(messages) THEN IsObservation(messages[k + 1]) ELSE InProgress(k)

(***************************************************************************)
(* C5.  Dispatching a tool name that is not in the registry does not abort *)
(* the run: the error text becomes the observation, which is appended as a *)
(* user message, and the loop goes on to the next turn.                    *)
(***************************************************************************)
C5_UnknownToolObserved ==
  (TurnHasAction /\ tool_name \notin ToolNames) =>
    \/ TurnInProgress
    \/ TurnObserved(ErrorObservation(<<SQ>> \o tool_name \o <<SQ>>))

C5_UnknownSeen ==
  /\ pc = "loop"
  /\ content = R_Unknown
  /\ tool_name = <<"n","o","s","u","c","h">>
  /\ Len(messages) = 6
  /\ IsObservation(messages[6])

(***************************************************************************)
(* C6.  An exception of a tool handler during dispatch, a wrong number of  *)
(* positional arguments included, is caught and becomes an error           *)
(* observation with the exception's message; the observation is appended   *)
(* and the run goes on to the next turn.                                   *)
(***************************************************************************)
TurnHasWrongArity ==
  /\ tool_name \in ToolNames
  /\ Len(args) < MinArgs(tool_name) \/ Len(args) > MaxArgs(tool_name)

C6_ToolErrorsObserved ==
  /\ \A j \in 1..Len(invoked) :
       invoked[j].outcome = "raises" =>
         /\ Len(messages) >= 2 * invoked[j].step + 2
         /\ messages[2 * invoked[j].step + 2] = ErrorObservation(HandlerError)
  /\ \A j \in InvokedInTurn(step_count) :
       invoked[j].outcome = "raises" => TurnObserved(ErrorObservation(HandlerError))
  /\ (TurnHasAction /\ TurnHasWrongArity /\ TurnApproved) =>
       \/ TurnInProgress
       \/ TurnObserved(ErrorObservation(ArityError))
  /\ ~(result.kind = "raise" /\ result.line = 91)

C6_ErrorsSeen ==
  /\ pc = "loop"
  /\ \E j \in 1..Len(invoked) : invoked[j].outcome = "raises"
  /\ content = R_WrongArity
  /\ messages[Len(messages)] = ErrorObservation(ArityError)

(***************************************************************************)
(* C7.  The handler of run_terminal_command is invoked in a turn only      *)
(* after an affirmative answer to the prompt of that turn; every other     *)
(* tool is approved with no prompt.                                        *)
(***************************************************************************)
C7_GateBeforeTerminal ==
  /\ \A j \in 1..Len(invoked) :
       IF invoked[j].tool = run_terminal_command
       THEN \E k \in PromptsOfTurn(invoked[j].step) :
              /\ prompts[k].tool = run_terminal_command
              /\ prompts[k].answer \in Affirmative
       ELSE PromptsOfTurn(invoked[j].step) = {}
  /\ \A k \in 1..Len(prompts) : prompts[k].tool = run_terminal_command
  /\ result.kind = "cancelled" => tool_name = run_terminal_command

C7_TerminalRan ==
  /\ \E j \in 1..Len(invoked) : invoked[j].tool = run_terminal_command
  /\ \E j \in 1..Len(invoked) : invoked[j].tool = read_file

(***************************************************************************)
(* C8.  The history is append-only, and in every state of a run it is a    *)
(* system message, the user's question, and then assistant responses and   *)
(* user-role observations in turn, an assistant response first.            *)
(***************************************************************************)
IsPrefix(s, t) == Len(s) <= Len(t) /\ SubSeq(t, 1, Len(s)) = s

HistoryShape ==
  pc # "idle" =>
    /\ Len(messages) >= 2
    /\ messages[1].role = "system"
    /\ messages[2].role = "user"
    /\ messages[2].content[1] = "<question>"
    /\ \A k \in 3..Len(messages) :
         IF k % 2 = 1 THEN messages[k].role = "assistant"
         ELSE IsObservation(messages[k])

C8_HistoryShape == [] HistoryShape /\ [][IsPrefix(messages, messages')]_vars

C8_LongHistory == pc = "loop" /\ Len(messages) >= 6

(***************************************************************************)
(* C9.  Whenever the response has the <final_answer> marker, the turn ends *)
(* the run with a final answer, also when the closing tag is missing.  As  *)
(* stated this fails: with no closing tag the search of agent.py:73 finds  *)
(* nothing and line 74 raises AttributeError.                              *)
(***************************************************************************)
C9_FinalMarkerEndsRun ==
  HasFinalMarker(content) => pc = "done" /\ result.kind = "final_answer"

(***************************************************************************)
(* C10.  parse_action ends an argument only at a comma that is outside     *)
(* every quoted string and inside no parenthesis: the arguments are the    *)
(* pieces of the argument text between those commas, each read as one      *)
(* argument, a blank last piece left out.  foo(bar(1,2), "x,y") has the    *)
(* arguments bar(1,2) and x,y; foo("a,b", "c") has a,b and c.              *)
(***************************************************************************)
RECURSIVE QuoteOpen(_, _)
\* the quote character of the string that is open after the first i
\* characters of s, or NoChar
QuoteOpen(s, i) ==
  IF i = 0 THEN NoChar
  ELSE LET q == QuoteOpen(s, i - 1)
       IN  IF q = NoChar
           THEN IF s[i] \in {DQ, SQ} THEN s[i] ELSE NoChar
           ELSE IF s[i] = q /\ (i = 1 \/ s[i - 1] # BS) THEN NoChar ELSE q

Unquoted(s, i) == QuoteOpen(s, i - 1) = NoChar

\* the parentheses open before place i, those in strings not counted
DepthBefore(s, i) ==
  Cardinality({j \in 1..(i - 1) : s[j] = "(" /\ Unquoted(s, j)})
    - Cardinality({j \in 1..(i - 1) : s[j] = ")" /\ Unquoted(s, j)})

TopLevelCommas(s) ==
  {i \in 1..Len(s) : s[i] = "," /\ Unquoted(s, i) /\ DepthBefore(s, i) = 0}

RECURSIVE Pieces(_, _, _)
\* s from place from on, cut at the places of cuts
Pieces(s, cuts, from) ==
  LET later == {c \in cuts : c >= from}
  IN  IF later = {} THEN <<SubSeq(s, from, Len(s))>>
      ELSE LET c == CHOOSE x \in later : \A y \in later : x <= y
           IN  <<SubSeq(s, from, c - 1)>> \o Pieces(s, cuts, c + 1)

ArgumentText(code) ==
  Strip(SubSeq(code, WordPrefixLen(code) + 2, LastClose(code) - 1))

ExpectedArgs(s) ==
  LET ps == Pieces(s, TopLevelCommas(s), 1)
      n  == IF Strip(ps[Len(ps)]) = <<>> THEN Len(ps) - 1 ELSE Len(ps)
  IN  [k \in 1..n |-> ParseSingleArg(ps[k])]

C10_SplitAtTopLevelCommas ==
  /\ ppc = "returned" => parsed.args = ExpectedArgs(ArgumentText(code_str))
  /\ ppc # "ready" /\ code_str = Ex_Nested =>
       parsed = [ok |-> TRUE, func_name |-> <<"f","o","o">>,
                 args |-> << StrVal(<<"b","a","r","(","1",",","2",")">>),
                             StrVal(<<"x",",","y">>) >>]
  /\ ppc # "ready" /\ code_str = Ex_QuotedComma =>
       parsed = [ok |-> TRUE, func_name |-> <<"f","o","o">>,
                 args |-> << StrVal(<<"a",",","b">>), StrVal(<<"c">>) >>]

C10_NestedSplit ==
  /\ ppc = "returned"
  /\ code_str = Ex_Nested
  /\ Len(parsed.args) = 2

(***************************************************************************)
(* C11.  parse_action raises the action-syntax error whenever the action   *)
(* string as a whole is not an identifier, a "(", any text and a ")" last: *)
(* a string with characters before the identifier or after the last ")",   *)
(* or with no parenthesised body, gives no tool name and arguments.  As    *)
(* stated this fails: re.match of agent.py:163 ties the pattern to the     *)
(* start of the string only, and f() x is parsed as f with no argument.    *)
(***************************************************************************)
\* identifier "(" ... ")" from the first character to the last
WholeStringIsCall(s) ==
  /\ Len(s) >= 3
  /\ s[Len(s)] = ")"
  /\ \E w \in 1..(Len(s) - 2) :
       /\ \A k \in 1..w : IsWord(s[k])
       /\ s[w + 1] = "("

C11_AnchoredAtBothEnds ==
  /\ ppc = "returned" => WholeStringIsCall(code_str)
  /\ ppc = "raised" => ~WholeStringIsCall(code_str) /\ parsed = NotParsed

(***************************************************************************)
(* C12.  Every trimmed argument is read as a literal of its type: a quoted *)
(* string is its content without the quotes, digits are an integer, true   *)
(* and false are booleans; foo("bar", 3, true) has the tool name foo and   *)
(* the arguments "bar" a string, 3 an integer and true a boolean.  As      *)
(* stated this fails: ast.literal_eval of agent.py:218 knows True and      *)
(* False, not true and false, and the except branch returns the text       *)
(* "true", a string.                                                       *)
(***************************************************************************)
C12_TypedLiterals ==
  (ppc # "ready" /\ code_str = Ex_Typed) =>
    /\ parsed.ok
    /\ parsed.func_name = <<"f","o","o">>
    /\ Len(parsed.args) = 3
    /\ parsed.args[1] = StrVal(<<"b","a","r">>)
    /\ parsed.args[2] = IntVal(<<"3">>)
    /\ parsed.args[3].t = "bool"

(***************************************************************************)
(* C13.  A backslash and the letter n in a quoted string argument are      *)
(* kept as they are by parse_action: the second argument of                *)
(* write_to_file("f.txt","a\nb") has the two characters backslash and n,   *)
(* and no line break.  As stated this fails: ast.literal_eval of           *)
(* agent.py:218 decodes the escape, and the argument is a, a line break    *)
(* and b.                                                                  *)
(***************************************************************************)
C13_EscapeKeptVerbatim ==
  (ppc # "ready" /\ code_str = Ex_Newline) =>
    /\ parsed.ok
    /\ Len(parsed.args) = 2
    /\ parsed.args[2] = StrVal(<<"a", BS, "n", "b">>)
    /\ LF \notin Range(parsed.args[2].v)

(***************************************************************************)
(* C14.  When the call-expression of the action does not parse, run ends   *)
(* with the action-syntax error raised to its caller: no confirmation is   *)
(* asked, no handler is invoked, no observation is appended, the reasoning *)
(* source is not called again, and no result text is returned.             *)
(***************************************************************************)
LastResponse == messages[Len(messages)].content

\* the last message is the response of the turn
Responded == Len(messages) >= 3 /\ messages[Len(messages)].role = "assistant"

HasActionSpan(c) ==
  \E i \in 1..Len(c) : \E j \in (i + 1)..Len(c) :
    c[i] = ActionOpen /\ c[j] = ActionClose

\* the turn ended the run with the exception exc of the given line, and
\* did nothing after the response
AbortedWith(exc, line) ==
  /\ pc = "done"
  /\ result = [kind |-> "raise", value |-> <<>>, exc |-> exc, line |-> line]
  /\ PromptsOfTurn(step_count) = {}
  /\ InvokedInTurn(step_count) = {}
  /\ Len(messages) = 2 * step_count + 1
  /\ messages[Len(messages)] = [role |-> "assistant", content |-> content]
  /\ model_calls = step_count

C14_SyntaxErrorAborts ==
  /\ ( /\ Responded
       /\ ~HasFinalMarker(LastResponse)
       /\ HasActionSpan(LastResponse)
       /\ ~Matches(ActionText(LastResponse)) )
     => AbortedWith("ValueError", 165)
  /\ result.exc = "ValueError" => AbortedWith("ValueError", 165)

C14_SyntaxErrorSeen ==
  /\ pc = "done"
  /\ content = R_BadSyntax
  /\ result.exc = "ValueError"
  /\ step_count > 1

(***************************************************************************)
(* C15.  A response with no <final_answer> marker and no complete          *)
(* <action>...</action> span ends the run with a parse error raised to the *)
(* caller: no tool is dispatched, no observation is appended, and the      *)
(* reasoning source is not called again.                                   *)
(***************************************************************************)
C15_NoTagsAborts ==
  /\ ( /\ Responded
       /\ ~HasFinalMarker(LastResponse)
       /\ ~HasActionSpan(LastResponse) )
     => AbortedWith("RuntimeError", 79)
  /\ result.exc = "RuntimeError" => AbortedWith("RuntimeError", 79)

C15_NoTagsSeen ==
  /\ pc = "done"
  /\ content = R_OpenAction
  /\ result.exc = "RuntimeError"
  /\ step_count > 1

(***************************************************************************)
(* C16.  When every call of the reasoning source, every prompt and every   *)
(* tool call returns, each run ends: it reaches a final answer, the step   *)
(* limit, a cancellation or a fatal error, after at most MAX_STEPS calls   *)
(* of the reasoning source.  The loop does not go on for ever.             *)
(***************************************************************************)
Terminal ==
  /\ pc = "done"
  /\ result.kind \in {"final_answer", "step_limit", "cancelled", "raise"}

C16_Terminates == <>Terminal /\ [](model_calls <= MAX_STEPS)

C16_RanToTheLimit ==
  /\ Terminal
  /\ result.kind = "step_limit"
  /\ model_calls = MAX_STEPS
  /\ Len(messages) = 2 * MAX_STEPS + 2

(***************************************************************************)
(* C17.  The turns follow one another: in every state the calls of the     *)
(* reasoning source so far are step_count or step_count - 1 and at most    *)
(* MAX_STEPS; a turn dispatches at most one tool; each dispatch comes      *)
(* after the one response of its turn; and there are never more            *)
(* dispatches than calls of the reasoning source.                          *)
(***************************************************************************)
Observations == {k \in 1..Len(messages) : IsObservation(messages[k])}

C17_OneTurnAtATime ==
  /\ model_calls \in {step_count, step_count - 1}
  /\ model_calls >= 0
  /\ model_calls <= MAX_STEPS
  /\ \A n \in 0..step_count : Cardinality(InvokedInTurn(n)) <= 1
  /\ \A j \in 1..Len(invoked) : invoked[j].step \in 1..model_calls
  /\ \A k \in Observations :
       /\ k >= 4
       /\ messages[k - 1].role = "assistant"
       /\ messages[k - 2].role # "assistant"
  /\ Cardinality(Observations) <= model_calls
  /\ Len(invoked) <= Cardinality(Observations)
  /\ pc = "dispatch" => Cardinality(Observations) < model_calls

C17_EveryTurnDispatched ==
  /\ pc = "done"
  /\ step_count = MAX_STEPS + 1
  /\ model_calls = MAX_STEPS
  /\ Len(invoked) = MAX_STEPS
  /\ Cardinality(Observations) = MAX_STEPS

(***************************************************************************)
(* C18.  Scanning the argument text, parse_action leaves a quoted string   *)
(* only at a character that is the quote that opened it and that no        *)
(* backslash comes right before: the other quote does not close the        *)
(* string, and a quote after a backslash does not close it even when that  *)
(* backslash is the second of two, so that the comma after it is no        *)
(* separator.                                                              *)
(***************************************************************************)
\* the scanner, before and after the character at place k, goes by the rule
ClosesByTheRule(s, k) ==
  LET before == ScanTo(s, k - 1)
      after  == ScanTo(s, k)
  IN  /\ before.in_string = (QuoteOpen(s, k - 1) # NoChar)
      /\ before.string_char = QuoteOpen(s, k - 1)
      /\ (before.in_string /\ ~after.in_string) =>
           /\ s[k] = before.string_char
           /\ k > 1
           /\ s[k - 1] # BS
      /\ (before.in_string /\ after.in_string) =>
           \/ s[k] # before.string_char
           \/ s[k - 1] = BS

C18_QuoteClosesString ==
  /\ ppc = "returned" =>
       \A k \in 1..Len(ArgumentText(code_str)) :
         ClosesByTheRule(ArgumentText(code_str), k)
  /\ (ppc # "ready" /\ code_str = Ex_EscapedBackslash) =>
       parsed.args = << TupleVal(<< StrVal(<<"a", BS>>), StrVal(<<"b">>) >>) >>
  /\ (ppc # "ready" /\ code_str = CallText(<<"f">>, <<DQ, SQ, ",", DQ>>)) =>
       parsed.args = << StrVal(<<SQ, ",">>) >>
  /\ (ppc # "ready" /\ code_str = CallText(<<"f">>, <<DQ, BS, DQ, ",">>)) =>
       parsed.args = << StrVal(<<DQ, BS, DQ, ",">>) >>

C18_EscapedQuoteSeen ==
  /\ ppc = "returned"
  /\ code_str = Ex_EscapedBackslash
  /\ Len(parsed.args) = 1
  /\ ScanTo(ArgumentText(code_str), 5).in_string

(***************************************************************************)
(* C19.  When the call of the reasoning source fails, the failure leaves   *)
(* run as a fatal error: no assistant message is appended for that turn,   *)
(* no tool is dispatched, and no result text is returned.                  *)
(***************************************************************************)
C19_ReasonerFailureAborts ==
  result.exc = "ReasonerError" =>
    /\ pc = "done"
    /\ result.kind = "raise"
    /\ result.value = <<>>
    /\ model_calls = step_count
    /\ Len(messages) = 2 * step_count
    /\ messages[Len(messages)].role = "user"
    /\ Cardinality(Assistants) = step_count - 1
    /\ PromptsOfTurn(step_count) = {}
    /\ InvokedInTurn(step_count) = {}

C19_FailedInSecondTurn ==
  /\ pc = "done"
  /\ result.exc = "ReasonerError"
  /\ step_count = 2
  /\ Len(messages) = 4

(***************************************************************************)
(* C20.  Of a response with several <action>...</action> spans and no      *)
(* final-answer marker only the first span is parsed and dispatched in     *)
(* the turn; the later spans are passed over with no error, and the turn   *)
(* has one observation.                                                    *)
(***************************************************************************)
PlacesOf(c, marker) == {x \in 1..Len(c) : c[x] = marker}

SeveralSpans(c) ==
  /\ ~HasFinalMarker(c)
  /\ \E i, k \in PlacesOf(c, ActionOpen) : \E j, l \in PlacesOf(c, ActionClose) :
       i < j /\ j < k /\ k < l

\* the text between the first <action> and the first </action> after it
FirstSpanText(c) ==
  LET i == CHOOSE x \in 1..Len(c) :
             c[x] = ActionOpen /\ \A y \in 1..(x - 1) : c[y] # ActionOpen
      j == CHOOSE x \in (i + 1)..Len(c) :
             c[x] = ActionClose /\ \A y \in (i + 1)..(x - 1) : c[y] # ActionClose
  IN  SubSeq(c, i + 1, j - 1)

\* the turn has one observation, after its response, and the run went on
TurnHasOneObservation ==
  /\ Len(messages) >= 4
  /\ messages[Len(messages) - 1] = [role |-> "assistant", content |-> content]
  /\ IsObservation(messages[Len(messages)])
  /\ \/ pc = "loop"
     \/ pc = "done" /\ (result.kind = "step_limit" \/ result.exc = "ReasonerError")

C20_FirstActionOnly ==
  /\ (SeveralSpans(content) /\ TurnHasAction) =>
       /\ tool_name =
            SubSeq(FirstSpanText(content), 1, WordPrefixLen(FirstSpanText(content)))
       /\ TurnInProgress \/ TurnHasOneObservation
  /\ content = R_TwoActions =>
       /\ tool_name = fetch_url
       /\ args = << StrVal(<<"u">>) >>
       /\ \/ TurnInProgress
          \/ /\ TurnHasOneObservation
             /\ messages[Len(messages)] =
                  [role |-> "user", content |-> <<ObsOpen>> \o ToolOutput \o <<ObsClose>>]
             /\ invoked[Len(invoked)].tool = fetch_url

C20_SecondSpanIgnored ==
  /\ pc = "loop"
  /\ content = R_TwoActions
  /\ step_count = 2
  /\ Len(messages) = 6

(***************************************************************************)
(* C21.  The gated tool is dispatched only when the answer to the prompt,  *)
(* in lower case, is the one letter y.  Every other answer, the empty one, *)
(* "yes", "n" and one with white space around it included, ends the run    *)
(* with the cancellation message, and nothing is dispatched.               *)
(***************************************************************************)
IsLetterY(answer) == Len(answer) = 1 /\ answer[1] \in {"y", "Y"}

\* the turn of the prompt p went on to the dispatch
DispatchedAfter(p) ==
  \/ p.step = step_count /\ pc = "dispatch"
  \/ Len(messages) >= 2 * p.step + 2 /\ IsObservation(messages[2 * p.step + 2])

\* the run ended at the prompt p with the cancellation message
CancelledAt(p) ==
  /\ pc = "done"
  /\ result = [kind |-> "cancelled", value |-> CancelMsg, exc |-> "", line |-> 0]
  /\ p.step = step_count
  /\ InvokedInTurn(p.step) = {}
  /\ Len(messages) = 2 * p.step + 1

C21_OnlyYApproves ==
  /\ \A k \in 1..Len(prompts) :
       IF IsLetterY(prompts[k].answer)
       THEN DispatchedAfter(prompts[k]) /\ ~CancelledAt(prompts[k])
       ELSE CancelledAt(prompts[k]) /\ ~DispatchedAfter(prompts[k])
  /\ (pc = "dispatch" /\ tool_name = run_terminal_command) =>
       IsLetterY(should_continue)
  /\ \A a \in { <<>>, <<"y","e","s">>, <<"n">>, <<" ","y">> } :
       (should_continue = a /\ prompts # <<>>) => CancelledAt(prompts[Len(prompts)])

C21_YesIsNoApproval ==
  /\ pc = "done"
  /\ Len(prompts) = 2
  /\ prompts[1].answer = <<"Y">>
  /\ prompts[2].answer = <<"y","e","s">>
  /\ result.kind = "cancelled"

(***************************************************************************)
(* C22.  The number of arguments parse_action returns goes by the          *)
(* top-level commas of the argument text: with k of them there are k + 1   *)
(* arguments when the text after the last comma is not blank and k when    *)
(* it is blank, so that name() has no argument and a comma at the end adds *)
(* none; a blank piece before a top-level comma is kept, as an argument    *)
(* that is the empty string.                                               *)
(***************************************************************************)
\* the text of s after its last top-level comma, all of s when it has none
AfterLastComma(s) ==
  LET cuts == TopLevelCommas(s)
  IN  IF cuts = {} THEN s
      ELSE SubSeq(s, (CHOOSE c \in cuts : \A d \in cuts : d <= c) + 1, Len(s))

\* the text of s between the top-level comma at c and the one before it
BeforeComma(s, c) ==
  LET earlier == {d \in TopLevelCommas(s) : d < c}
  IN  IF earlier = {} THEN SubSeq(s, 1, c - 1)
      ELSE SubSeq(s, (CHOOSE d \in earlier : \A e \in earlier : e <= d) + 1, c - 1)

ArgumentCountBy(s) ==
  IF Strip(AfterLastComma(s)) # <<>>
  THEN Cardinality(TopLevelCommas(s)) + 1
  ELSE Cardinality(TopLevelCommas(s))

C22_ArgumentCount ==
  /\ ppc = "returned" =>
       /\ Len(parsed.args) = ArgumentCountBy(ArgumentText(code_str))
       /\ \A c \in TopLevelCommas(ArgumentText(code_str)) :
            Strip(BeforeComma(ArgumentText(code_str), c)) = <<>> =>
              parsed.args[Cardinality({d \in TopLevelCommas(ArgumentText(code_str)) :
                                          d <= c})] = StrVal(<<>>)
  /\ (ppc # "ready" /\ code_str = CallText(<<"f">>, <<>>)) => parsed.args = <<>>
  /\ (ppc # "ready" /\ code_str = CallText(<<"f">>, <<"a", ",">>)) =>
       parsed.args = << StrVal(<<"a">>) >>
  /\ (ppc # "ready" /\ code_str = CallText(<<"f">>, <<",", "a">>)) =>
       parsed.args = << StrVal(<<>>), StrVal(<<"a">>) >>
  /\ (ppc # "ready" /\ code_str = CallText(<<"f">>, <<",", " ", ",">>)) =>
       parsed.args = << StrVal(<<>>), StrVal(<<>>) >>

C22_BlankPieceKept ==
  /\ ppc = "returned"
  /\ code_str = CallText(<<"f">>, <<",", "a", ",">>)
  /\ Len(parsed.args) = 2
  /\ parsed.args[1] = StrVal(<<>>)

=============================================================================
